---- MODULE Spec2Model ----
(***************************************************************************)
(* Model of prisma/type-benchmarks.                                        *)
(*                                                                         *)
(*  - the Batch Orchestrator, src/test.ts: parses the command line, runs   *)
(*    `prisma generate`, discovers the *.bench.ts files of its directory   *)
(*    and runs each in a child process, one after the other;               *)
(*  - the Benchmark Runner, src/measure-typechecking.ts: probes a list of  *)
(*    files with the TypeScript compiler and prints a summary and a        *)
(*    comparison table;                                                    *)
(*  - the Prober, measureTypeChecking of the same file: one timed type     *)
(*    check of one file, followed step by step.                            *)
(*                                                                         *)
(* Strings the code inspects (command-line arguments, file names) are      *)
(* sequences of one-character strings, so that includes, startsWith,       *)
(* endsWith, split and parseInt are computed, not assumed.                 *)
(***************************************************************************)
EXTENDS Integers, Sequences, FiniteSets, TLC

VARIABLES
    \* ---- Batch Orchestrator (src/test.ts) ----
    argv,               \* process.argv.slice(2)
    dirListing,         \* what readdir(benchmarkDir) returns, with each item's stat
    pc,                 \* position of the top-level script
    updateSnapshots,    \* test.ts:7
    shouldOnlyGenerate, \* test.ts:8
    shouldSkipGenerate, \* test.ts:8
    testFilter,         \* test.ts:9, [defined, value]
    benchFiles,         \* test.ts:27
    idx,                \* position of the for..of loop of test.ts:28 in benchFiles
    results,            \* test.ts:11
    hasAnyFailure,      \* test.ts:17
    alive,              \* child processes started by execa and not yet exited
    spawnLog,           \* every child started so far, in order
    exitLog,            \* every child exit so far, in order, with its exit code
    printed,            \* the result lines printResults has written
    uncaught,           \* an error propagated out of the top-level script
    exitCode,           \* the exit status of the process, meaningful once pc = "done"
    \* ---- Benchmark Runner (src/measure-typechecking.ts) ----
    rArgs,              \* process.argv.slice(2) of the runner
    rpc,                \* position of main / runBenchmark
    files,              \* runBenchmark's files
    iterations,         \* runBenchmark's iterations
    fpos,               \* position of the current for..of loop in files
    iter,               \* i of measure-typechecking.ts:103
    rResults,           \* results of measure-typechecking.ts:90: keys in insertion order, and their lists
    probeLog,           \* every call of measureTypeChecking so far, in order; met = what a measured call met; failed = the measured phase found the result failed (line 107)
    summaryData,        \* measure-typechecking.ts:119
    comparisonData,     \* measure-typechecking.ts:174
    rUsage,             \* the usage text has been printed (measure-typechecking.ts:215-221)
    rUncaught,          \* an error propagated out of main
    rExitCode,          \* exit status of the runner, meaningful once rpc = "done"
    \* ---- Prober (measureTypeChecking of src/measure-typechecking.ts) ----
    pFile,              \* fileName of a call of measureTypeChecking
    ppc,                \* position of the call
    pNow,               \* what performance.now() returns at this moment, in ms
    pEnv,               \* what the call has met so far: see measureTypeChecking below
    pResult             \* the Measurement returned, meaningful once ppc = "returned"

orchVars == <<argv, dirListing, pc, updateSnapshots, shouldOnlyGenerate,
              shouldSkipGenerate, testFilter, benchFiles, idx, results,
              hasAnyFailure, alive, spawnLog, exitLog, printed, uncaught, exitCode>>

runnerVars == <<rArgs, rpc, files, iterations, fpos, iter, rResults, probeLog,
                summaryData, comparisonData, rUsage, rUncaught, rExitCode>>

proberVars == <<pFile, ppc, pNow, pEnv, pResult>>

vars == <<orchVars, runnerVars, proberVars>>

----------------------------------------------------------------------------
(* Bounds of the model *)

MaxArgs == 3          \* longest command line of the orchestrator
MaxDirEntries == 2    \* most entries in the benchmark directory
MaxExitCode == 1      \* child processes exit with a status in 0..MaxExitCode
MaxFiles == 2         \* most paths on the command line of the runner
MaxIterations == 2    \* largest iteration count the runner is started with
MaxTime == 1          \* largest type-check time of a probe, in ms

----------------------------------------------------------------------------
(* String helpers: String.prototype.startsWith / endsWith / includes *)

startsWith(s, p) ==
    /\ Len(p) <= Len(s)
    /\ SubSeq(s, 1, Len(p)) = p

endsWith(s, p) ==
    /\ Len(p) <= Len(s)
    /\ SubSeq(s, Len(s) - Len(p) + 1, Len(s)) = p

includes(s, p) ==
    \E i \in 0..(Len(s) - Len(p)) : SubSeq(s, i + 1, i + Len(p)) = p

\* Array.prototype.includes
arrayIncludes(arr, x) == \E i \in 1..Len(arr) : arr[i] = x

----------------------------------------------------------------------------
(* The literals of src/test.ts *)

FlagU == <<"-", "u">>
FlagUpdateSnapshots ==
    <<"-", "-", "u", "p", "d", "a", "t", "e", "S", "n", "a", "p", "s", "h", "o", "t", "s">>
FlagOnlyGenerate ==
    <<"-", "-", "o", "n", "l", "y", "G", "e", "n", "e", "r", "a", "t", "e">>
FlagSkipGenerate ==
    <<"-", "-", "s", "k", "i", "p", "G", "e", "n", "e", "r", "a", "t", "e">>
BenchSuffix == <<".", "b", "e", "n", "c", "h", ".", "t", "s">>

\* Command-line arguments the model draws from: the flags, and the filters
\* "a", "b" and "" (an empty argument).
ArgPool == {FlagU, FlagOnlyGenerate, FlagSkipGenerate, <<"a">>, <<"b">>, <<>>}

\* Directory entries the model draws from: a.bench.ts, b.bench.ts, a plain
\* file a.ts, and a directory named d.bench.ts.
EntryPool ==
    { [name |-> <<"a">> \o BenchSuffix, isFile |-> TRUE],
      [name |-> <<"b">> \o BenchSuffix, isFile |-> TRUE],
      [name |-> <<"a", ".", "t", "s">>, isFile |-> TRUE],
      [name |-> <<"d">> \o BenchSuffix, isFile |-> FALSE] }

SeqsUpTo(S, n) == UNION { [1..k -> S] : k \in 0..n }

\* A directory holds each name once; readdir lists it in an order the file
\* system chooses.
Listings ==
    { l \in SeqsUpTo(EntryPool, MaxDirEntries) :
        \A i, j \in 1..Len(l) : i # j => l[i].name # l[j].name }

\* Command lines: up to MaxArgs arguments of ArgPool in any order, none twice
\* (includes and find do not tell a repeated argument from a single one).
CommandLines ==
    { l \in SeqsUpTo(ArgPool, MaxArgs) :
        \A i, j \in 1..Len(l) : i # j => l[i] # l[j] }

ExitCodes == 0..MaxExitCode

----------------------------------------------------------------------------
(* Pure functions of src/test.ts *)

\* test.ts:47-56
shouldUpdateSnapshots(args) ==
    arrayIncludes(args, FlagU) \/ arrayIncludes(args, FlagUpdateSnapshots)

\* getGenerateOptions without the check of test.ts:63-65
getGenerateOptions_NoThrow(args) ==
    [threw |-> FALSE,
     shouldOnlyGenerate |-> arrayIncludes(args, FlagOnlyGenerate),
     shouldSkipGenerate |-> arrayIncludes(args, FlagSkipGenerate)]

\* test.ts:58-71; threw = the Error of line 64
getGenerateOptions(args) ==
    LET only == arrayIncludes(args, FlagOnlyGenerate)
        skip == arrayIncludes(args, FlagSkipGenerate)
    IN  [threw |-> only /\ skip, shouldOnlyGenerate |-> only, shouldSkipGenerate |-> skip]

\* getTestFilter taking the last argument that is no flag instead of the first
getTestFilter_Last(args) ==
    LET hits == { i \in 1..Len(args) : ~startsWith(args[i], <<"-">>) }
    IN  IF hits = {}
        THEN [defined |-> FALSE, value |-> <<>>]
        ELSE [defined |-> TRUE,
              value |-> args[CHOOSE i \in hits : \A j \in hits : i >= j]]

\* test.ts:73-77; Array.prototype.find gives the first match, or undefined
getTestFilter(args) ==
    LET hits == { i \in 1..Len(args) : ~startsWith(args[i], <<"-">>) }
    IN  IF hits = {}
        THEN [defined |-> FALSE, value |-> <<>>]
        ELSE [defined |-> TRUE,
              value |-> args[CHOOSE i \in hits : \A j \in hits : i <= j]]

\* JavaScript truthiness of testFilter (test.ts:29): undefined and "" are falsy
truthy(filter) == filter.defined /\ filter.value # <<>>

\* test.ts:29, the condition under which a fixture is skipped
isFilteredOut(filter, benchFile) ==
    truthy(filter) /\ ~includes(benchFile, filter.value)

\* test.ts:79-88
RECURSIVE getBenchmarkFiles(_)
getBenchmarkFiles(listing) ==
    IF listing = <<>> THEN <<>>
    ELSE LET item == Head(listing)
             rest == getBenchmarkFiles(Tail(listing))
         IN  IF item.isFile /\ endsWith(item.name, BenchSuffix)
             THEN <<item.name>> \o rest
             ELSE rest

\* test.ts:45
exitStatus(failure) == IF failure THEN 1 ELSE 0

\* statusOf without the skipped case
statusOf_IgnoresSkipped(result) ==
    IF result.success THEN "Success" ELSE "Failed"

\* test.ts:135-139
statusOf(result) ==
    IF result.skipped THEN "Skipped"
    ELSE IF result.success THEN "Success" ELSE "Failed"

\* test.ts:131-146: the lines printResults writes, a rule being "===="
rule == [status |-> "Rule", test |-> <<>>]

printResults(rs, update) ==
    <<rule, [status |-> "Results:", test |-> <<>>], rule>>
    \o [i \in 1..Len(rs) |-> [status |-> statusOf(rs[i]), test |-> rs[i].test]]
    \o <<rule>>
    \o (IF update THEN <<[status |-> "Updated snapshots", test |-> <<>>], rule>> ELSE <<>>)

\* the child process test.ts:92 starts
generateChild == [cmd |-> "prisma", file |-> <<>>, update |-> FALSE]

\* the child process test.ts:109-113 starts
benchChild(benchFile, update) == [cmd |-> "node", file |-> benchFile, update |-> update]

----------------------------------------------------------------------------
(* Pure functions of src/measure-typechecking.ts *)

\* measure-typechecking.ts:226 (and 85, 231)
DefaultIterations == 5

IterationsPrefix ==
    <<"-", "-", "i", "t", "e", "r", "a", "t", "i", "o", "n", "s", "=">>

Digits == <<"0", "1", "2", "3", "4", "5", "6", "7", "8", "9">>

isDigit(c) == \E d \in 1..10 : Digits[d] = c
digitValue(c) == (CHOOSE d \in 1..10 : Digits[d] = c) - 1

\* s.split("=")[1]: the text between the first "=" and the next one (or the end);
\* s holds an "=" wherever the code calls it (measure-typechecking.ts:229-231)
RECURSIVE upToEquals(_)
upToEquals(s) ==
    IF s = <<>> \/ Head(s) = "=" THEN <<>>
    ELSE <<Head(s)>> \o upToEquals(Tail(s))

splitEquals1(s) ==
    LET first == CHOOSE i \in 1..Len(s) : s[i] = "=" /\ \A j \in 1..(i - 1) : s[j] # "="
    IN  upToEquals(SubSeq(s, first + 1, Len(s)))

\* the value of the longest prefix of s made of digits, read in base 10
RECURSIVE digitsValue(_, _)
digitsValue(s, acc) ==
    IF s = <<>> \/ ~isDigit(Head(s)) THEN acc
    ELSE digitsValue(Tail(s), 10 * acc + digitValue(Head(s)))

\* parseInt(s): an optional sign, then digits; NaN when no digit follows
\* (leading blanks and the 0x prefix, which parseInt also reads, are not modelled)
parseInt(s) ==
    LET neg  == s # <<>> /\ Head(s) = "-"
        body == IF s # <<>> /\ Head(s) \in {"-", "+"} THEN Tail(s) ELSE s
    IN  IF body = <<>> \/ ~isDigit(Head(body))
        THEN [nan |-> TRUE, value |-> 0]
        ELSE [nan |-> FALSE,
              value |-> IF neg THEN 0 - digitsValue(body, 0) ELSE digitsValue(body, 0)]

\* measure-typechecking.ts:226-233, iterations
mainIterations(args) ==
    LET hits == { i \in 1..Len(args) : startsWith(args[i], IterationsPrefix) }
    IN  IF hits = {} THEN DefaultIterations
        ELSE LET iterArg == args[CHOOSE i \in hits : \A j \in hits : i <= j]
                 n == parseInt(splitEquals1(iterArg))
             IN  IF n.nan \/ n.value = 0 THEN DefaultIterations ELSE n.value

\* measure-typechecking.ts:227-233, files
mainFiles(args) ==
    IF \E i \in 1..Len(args) : startsWith(args[i], IterationsPrefix)
    THEN SelectSeq(args, LAMBDA arg : ~startsWith(arg, IterationsPrefix))
    ELSE args

noError == [defined |-> FALSE, message |-> ""]

\* measureTypeChecking with the two durations of the success path swapped
measureTypeChecking_TimesSwapped(fileName, env) ==
    IF ~env.exists
    THEN [file |-> fileName, typeCheckTime |-> 0, totalTime |-> 0,
          diagnosticsCount |-> 0, success |-> FALSE,
          error |-> [defined |-> TRUE, message |-> "File not found: <fullPath>"]]
    ELSE IF env.fault = "none"
    THEN [file |-> fileName,
          typeCheckTime |-> env.clock[4] - env.clock[1],
          totalTime |-> env.clock[3] - env.clock[2],
          diagnosticsCount |-> env.diagnostics,
          success |-> TRUE,
          error |-> noError]
    ELSE [file |-> fileName, typeCheckTime |-> 0,
          totalTime |-> env.clock[Len(env.clock)] - env.clock[1],
          diagnosticsCount |-> 0, success |-> FALSE,
          error |-> [defined |-> TRUE,
                     message |-> IF env.fault = "noConfig"
                                 THEN "Could not find a valid 'tsconfig.json'."
                                 ELSE env.message]]

\* measure-typechecking.ts:15-83.  env is what the call meets: whether the file
\* exists, whether the try block fails (fault = "noConfig": line 39; "throws":
\* an error of the compiler, with env.message), the successive readings of
\* performance.now() (the last one is the reading of the catch block when the
\* try block fails) and the number of diagnostics.
measureTypeChecking(fileName, env) ==
    IF ~env.exists
    THEN [file |-> fileName, typeCheckTime |-> 0, totalTime |-> 0,
          diagnosticsCount |-> 0, success |-> FALSE,
          error |-> [defined |-> TRUE, message |-> "File not found: <fullPath>"]]
    ELSE IF env.fault = "none"
    THEN LET startTotal     == env.clock[1]
             startTypeCheck == env.clock[2]
             endTypeCheck   == env.clock[3]
             endTotal       == env.clock[4]
         IN  [file |-> fileName,
              typeCheckTime |-> endTypeCheck - startTypeCheck,
              totalTime |-> endTotal - startTotal,
              diagnosticsCount |-> env.diagnostics,
              success |-> TRUE,
              error |-> noError]
    ELSE LET startTotal == env.clock[1]
             endTotal   == env.clock[Len(env.clock)]
         IN  [file |-> fileName, typeCheckTime |-> 0,
              totalTime |-> endTotal - startTotal,
              diagnosticsCount |-> 0, success |-> FALSE,
              error |-> [defined |-> TRUE,
                         message |-> IF env.fault = "noConfig"
                                     THEN "Could not find a valid 'tsconfig.json'."
                                     ELSE env.message]]

\* What the probes of a run of the runner meet: a missing file, a missing
\* tsconfig.json, a compiler error, or a successful check that takes
\* 0..MaxTime ms (the clock is read in whole ms, the construction of the
\* program taking no time).
RunnerEnvs ==
    { [exists |-> FALSE, fault |-> "none", message |-> "", clock |-> <<0, 0, 0, 0>>,
       diagnostics |-> 0],
      [exists |-> TRUE, fault |-> "noConfig", message |-> "", clock |-> <<0, 0>>,
       diagnostics |-> 0],
      [exists |-> TRUE, fault |-> "throws", message |-> "boom", clock |-> <<0, 0, 0, 0>>,
       diagnostics |-> 0] }
    \cup { [exists |-> TRUE, fault |-> "none", message |-> "", clock |-> <<0, 0, t, t>>,
            diagnostics |-> 0] : t \in 0..MaxTime }

\* the failure a call meets, as the log of probes records it
faultOf(env) ==
    IF ~env.exists THEN [fault |-> "missing", message |-> ""]
    ELSE [fault |-> env.fault, message |-> env.message]

\* the log does not record what a warm-up call meets: its result is dropped
unrecorded == [fault |-> "unrecorded", message |-> ""]

\* resetKey leaving the list of an existing key as it is
resetKey_KeepsList(res, file) ==
    IF \E k \in 1..Len(res.keys) : res.keys[k] = file
    THEN res
    ELSE [keys |-> Append(res.keys, file), lists |-> Append(res.lists, <<>>)]

\* results[file] = [] (measure-typechecking.ts:101): a new key goes last, an
\* existing key keeps its place and loses its list
resetKey(res, file) ==
    IF \E k \in 1..Len(res.keys) : res.keys[k] = file
    THEN [res EXCEPT !.lists =
            [k \in 1..Len(res.keys) |-> IF res.keys[k] = file THEN <<>> ELSE res.lists[k]]]
    ELSE [keys |-> Append(res.keys, file), lists |-> Append(res.lists, <<>>)]

\* results[file].push(result) (measure-typechecking.ts:105)
pushResult(res, file, result) ==
    [res EXCEPT !.lists =
        [k \in 1..Len(res.keys) |->
            IF res.keys[k] = file THEN Append(res.lists[k], result) ELSE res.lists[k]]]

RECURSIVE sumSeq(_)
sumSeq(q) == IF q = <<>> THEN 0 ELSE Head(q) + sumSeq(Tail(q))

minSeq(q) == CHOOSE x \in { q[i] : i \in 1..Len(q) } : \A i \in 1..Len(q) : x <= q[i]
maxSeq(q) == CHOOSE x \in { q[i] : i \in 1..Len(q) } : \A i \in 1..Len(q) : x >= q[i]

\* (num / den).toFixed(2) for num >= 0, den > 0, as a number of hundredths
toFixed2(num, den) == (200 * num + den) \div (2 * den)

errorText == [text |-> "ERROR", hundredths |-> 0]
dashText == [text |-> "-", hundredths |-> 0]
numberText(h) == [text |-> "number", hundredths |-> h]

\* measure-typechecking.ts:128-152: the summary row of one key of results
summaryRow(file, fileResults) ==
    IF Len(fileResults) = 0 \/ ~fileResults[1].success
    THEN [File |-> file, avg |-> errorText, min |-> dashText, max |-> dashText,
          Diagnostics |-> 0]
    ELSE LET typeCheckTimes == [i \in 1..Len(fileResults) |-> fileResults[i].typeCheckTime]
         IN  [File |-> file,
              avg |-> numberText(toFixed2(sumSeq(typeCheckTimes), Len(typeCheckTimes))),
              min |-> numberText(toFixed2(minSeq(typeCheckTimes), 1)),
              max |-> numberText(toFixed2(maxSeq(typeCheckTimes), 1)),
              Diagnostics |-> fileResults[1].diagnosticsCount]

\* measure-typechecking.ts:127-153
summarize(res) ==
    [k \in 1..Len(res.keys) |-> summaryRow(res.keys[k], res.lists[k])]

\* measure-typechecking.ts:163-165
validRows(summary) == SelectSeq(summary, LAMBDA d : d.avg.text # "ERROR")

\* measure-typechecking.ts:166-171: reduce without an initial value, over a
\* non-empty array
RECURSIVE reduceFastest(_, _)
reduceFastest(acc, rest) ==
    IF rest = <<>> THEN acc
    ELSE reduceFastest(IF acc.avg.hundredths < Head(rest).avg.hundredths
                       THEN acc ELSE Head(rest),
                       Tail(rest))

fastestRow(valid) == reduceFastest(Head(valid), Tail(valid))

\* measure-typechecking.ts:180-189: avgTime / fastestTime is NaN for 0 / 0 and
\* Infinity for x / 0
comparisonRow(data, fastestTime) ==
    LET avgTime == data.avg.hundredths
        ratio == IF fastestTime # 0
                 THEN [kind |-> "finite", hundredths |-> toFixed2(avgTime, fastestTime)]
                 ELSE IF avgTime = 0 THEN [kind |-> "NaN", hundredths |-> 0]
                 ELSE [kind |-> "Infinity", hundredths |-> 0]
    IN  [File |-> data.File,
         speed |-> IF fastestTime # 0 /\ avgTime = fastestTime THEN "BASELINE" ELSE "slower",
         ratio |-> ratio,
         diff |-> avgTime - fastestTime]

\* Array.prototype.sort with the comparator of lines 192-194: stable, ascending diff
RECURSIVE insertByDiff(_, _)
insertByDiff(sorted, row) ==
    IF sorted = <<>> THEN <<row>>
    ELSE IF Head(sorted).diff <= row.diff
         THEN <<Head(sorted)>> \o insertByDiff(Tail(sorted), row)
         ELSE <<row>> \o sorted

RECURSIVE sortByDiff(_)
sortByDiff(rows) ==
    IF rows = <<>> THEN <<>>
    ELSE insertByDiff(sortByDiff(SubSeq(rows, 1, Len(rows) - 1)), rows[Len(rows)])

\* measure-typechecking.ts:163-195, for a non-empty validData
compare(summary) ==
    LET validData == validRows(summary)
        fastestTime == fastestRow(validData).avg.hundredths
    IN  sortByDiff([i \in 1..Len(validData) |-> comparisonRow(validData[i], fastestTime)])

----------------------------------------------------------------------------
(* The Benchmark Runner is not started in the orchestrator's runs *)

RunnerIdle ==
    /\ rArgs = <<>>
    /\ rpc = "idle"
    /\ files = <<>>
    /\ iterations = 0
    /\ fpos = 0
    /\ iter = 0
    /\ rResults = [keys |-> <<>>, lists |-> <<>>]
    /\ probeLog = <<>>
    /\ summaryData = <<>>
    /\ comparisonData = <<>>
    /\ rUsage = FALSE
    /\ rUncaught = FALSE
    /\ rExitCode = 0

\* what a call of measureTypeChecking has met before its first step
noEnv == [exists |-> TRUE, fault |-> "none", message |-> "", clock |-> <<>>,
          diagnostics |-> 0]

\* no call of measureTypeChecking is followed step by step
ProberIdle ==
    /\ pFile = <<>>
    /\ ppc = "idle"
    /\ pNow = 0
    /\ pEnv = noEnv
    /\ pResult = measureTypeChecking(<<>>, [noEnv EXCEPT !.exists = FALSE])

----------------------------------------------------------------------------
(* Batch Orchestrator: the top-level script of src/test.ts *)

\* The state when node starts test.ts: any command line, any directory.
Init ==
    /\ argv \in CommandLines
    /\ dirListing \in Listings
    /\ pc = "parse"
    /\ updateSnapshots = FALSE
    /\ shouldOnlyGenerate = FALSE
    /\ shouldSkipGenerate = FALSE
    /\ testFilter = [defined |-> FALSE, value |-> <<>>]
    /\ benchFiles = <<>>
    /\ idx = 1
    /\ results = <<>>
    /\ hasAnyFailure = FALSE
    /\ alive = {}
    /\ spawnLog = <<>>
    /\ exitLog = <<>>
    /\ printed = <<>>
    /\ uncaught = FALSE
    /\ exitCode = 0
    /\ RunnerIdle
    /\ ProberIdle

\* An error leaves the top-level script: node prints it and exits with status 1.
Crash ==
    /\ uncaught' = TRUE
    /\ exitCode' = 1
    /\ pc' = "done"

\* test.ts:7-9 when getGenerateOptions throws (line 64)
ParseFlagsConflict ==
    /\ pc = "parse"
    /\ getGenerateOptions(argv).threw
    /\ updateSnapshots' = shouldUpdateSnapshots(argv)
    /\ Crash
    /\ UNCHANGED <<runnerVars, proberVars>>
    /\ UNCHANGED <<argv, dirListing, shouldOnlyGenerate, shouldSkipGenerate, testFilter,
                   benchFiles, idx, results, hasAnyFailure, alive, spawnLog, exitLog,
                   printed>>

\* test.ts:7-17
ParseFlags ==
    /\ pc = "parse"
    /\ ~getGenerateOptions(argv).threw
    /\ updateSnapshots' = shouldUpdateSnapshots(argv)
    /\ shouldOnlyGenerate' = getGenerateOptions(argv).shouldOnlyGenerate
    /\ shouldSkipGenerate' = getGenerateOptions(argv).shouldSkipGenerate
    /\ testFilter' = getTestFilter(argv)
    /\ pc' = "generate"
    /\ UNCHANGED <<runnerVars, proberVars>>
    /\ UNCHANGED <<argv, dirListing, benchFiles, idx, results, hasAnyFailure, alive,
                   spawnLog, exitLog, printed, uncaught, exitCode>>

\* RunGenerate without the await: the script goes on while the generator runs
RunGenerate_NoAwait ==
    /\ pc = "generate"
    /\ ~shouldSkipGenerate
    /\ alive' = alive \cup {generateChild}
    /\ spawnLog' = Append(spawnLog, generateChild)
    /\ pc' = "afterGenerate"
    /\ UNCHANGED <<runnerVars, proberVars>>
    /\ UNCHANGED <<argv, dirListing, updateSnapshots, shouldOnlyGenerate,
                   shouldSkipGenerate, testFilter, benchFiles, idx, results,
                   hasAnyFailure, exitLog, printed, uncaught, exitCode>>

\* test.ts:19-20 and 90-95: start `prisma generate` and await it
RunGenerate ==
    /\ pc = "generate"
    /\ ~shouldSkipGenerate
    /\ alive' = alive \cup {generateChild}
    /\ spawnLog' = Append(spawnLog, generateChild)
    /\ pc' = "awaitGenerate"
    /\ UNCHANGED <<runnerVars, proberVars>>
    /\ UNCHANGED <<argv, dirListing, updateSnapshots, shouldOnlyGenerate,
                   shouldSkipGenerate, testFilter, benchFiles, idx, results,
                   hasAnyFailure, exitLog, printed, uncaught, exitCode>>

\* test.ts:19 with --skipGenerate
SkipGenerate ==
    /\ pc = "generate"
    /\ shouldSkipGenerate
    /\ pc' = "afterGenerate"
    /\ UNCHANGED <<runnerVars, proberVars>>
    /\ UNCHANGED <<argv, dirListing, updateSnapshots, shouldOnlyGenerate,
                   shouldSkipGenerate, testFilter, benchFiles, idx, results,
                   hasAnyFailure, alive, spawnLog, exitLog, printed, uncaught, exitCode>>

\* test.ts:92-95: the generator exits with status 0, the await resumes
GenerateSucceeds ==
    /\ pc = "awaitGenerate"
    /\ generateChild \in alive
    /\ alive' = alive \ {generateChild}
    /\ exitLog' = Append(exitLog, [child |-> generateChild, code |-> 0])
    /\ pc' = "afterGenerate"
    /\ UNCHANGED <<runnerVars, proberVars>>
    /\ UNCHANGED <<argv, dirListing, updateSnapshots, shouldOnlyGenerate,
                   shouldSkipGenerate, testFilter, benchFiles, idx, results,
                   hasAnyFailure, spawnLog, printed, uncaught, exitCode>>

\* GenerateFails with the rejection swallowed
GenerateFails_Caught ==
    /\ pc = "awaitGenerate"
    /\ generateChild \in alive
    /\ \E code \in ExitCodes \ {0} :
         exitLog' = Append(exitLog, [child |-> generateChild, code |-> code])
    /\ alive' = alive \ {generateChild}
    /\ pc' = "afterGenerate"
    /\ UNCHANGED <<runnerVars, proberVars>>
    /\ UNCHANGED <<argv, dirListing, updateSnapshots, shouldOnlyGenerate,
                   shouldSkipGenerate, testFilter, benchFiles, idx, results,
                   hasAnyFailure, spawnLog, printed, uncaught, exitCode>>

\* test.ts:92-95: the generator exits non-zero, execa rejects, nothing catches it
GenerateFails ==
    /\ pc = "awaitGenerate"
    /\ generateChild \in alive
    /\ \E code \in ExitCodes \ {0} :
         exitLog' = Append(exitLog, [child |-> generateChild, code |-> code])
    /\ alive' = alive \ {generateChild}
    /\ Crash
    /\ UNCHANGED <<runnerVars, proberVars>>
    /\ UNCHANGED <<argv, dirListing, updateSnapshots, shouldOnlyGenerate,
                   shouldSkipGenerate, testFilter, benchFiles, idx, results,
                   hasAnyFailure, spawnLog, printed>>

\* test.ts:23-25
ExitOnlyGenerate ==
    /\ pc = "afterGenerate"
    /\ shouldOnlyGenerate
    /\ exitCode' = 0
    /\ pc' = "done"
    /\ UNCHANGED <<runnerVars, proberVars>>
    /\ UNCHANGED <<argv, dirListing, updateSnapshots, shouldOnlyGenerate,
                   shouldSkipGenerate, testFilter, benchFiles, idx, results,
                   hasAnyFailure, alive, spawnLog, exitLog, printed, uncaught>>

\* DiscoverFixtures reached also in generate-only mode
DiscoverFixtures_NoEarlyExit ==
    /\ pc = "afterGenerate"
    /\ benchFiles' = getBenchmarkFiles(dirListing)
    /\ idx' = 1
    /\ pc' = "loop"
    /\ UNCHANGED <<runnerVars, proberVars>>
    /\ UNCHANGED <<argv, dirListing, updateSnapshots, shouldOnlyGenerate,
                   shouldSkipGenerate, testFilter, results, hasAnyFailure, alive,
                   spawnLog, exitLog, printed, uncaught, exitCode>>

\* test.ts:27
DiscoverFixtures ==
    /\ pc = "afterGenerate"
    /\ ~shouldOnlyGenerate
    /\ benchFiles' = getBenchmarkFiles(dirListing)
    /\ idx' = 1
    /\ pc' = "loop"
    /\ UNCHANGED <<runnerVars, proberVars>>
    /\ UNCHANGED <<argv, dirListing, updateSnapshots, shouldOnlyGenerate,
                   shouldSkipGenerate, testFilter, results, hasAnyFailure, alive,
                   spawnLog, exitLog, printed, uncaught, exitCode>>

\* SkipFixture counting a skipped fixture as a failure
SkipFixture_SetsFlag ==
    /\ pc = "loop"
    /\ idx <= Len(benchFiles)
    /\ isFilteredOut(testFilter, benchFiles[idx])
    /\ results' = Append(results,
                         [test |-> benchFiles[idx], success |-> FALSE, skipped |-> TRUE])
    /\ hasAnyFailure' = TRUE
    /\ idx' = idx + 1
    /\ UNCHANGED <<runnerVars, proberVars>>
    /\ UNCHANGED <<argv, dirListing, pc, updateSnapshots, shouldOnlyGenerate,
                   shouldSkipGenerate, testFilter, benchFiles, alive,
                   spawnLog, exitLog, printed, uncaught, exitCode>>

\* test.ts:29-37
SkipFixture ==
    /\ pc = "loop"
    /\ idx <= Len(benchFiles)
    /\ isFilteredOut(testFilter, benchFiles[idx])
    /\ results' = Append(results,
                         [test |-> benchFiles[idx], success |-> FALSE, skipped |-> TRUE])
    /\ idx' = idx + 1
    /\ UNCHANGED <<runnerVars, proberVars>>
    /\ UNCHANGED <<argv, dirListing, pc, updateSnapshots, shouldOnlyGenerate,
                   shouldSkipGenerate, testFilter, benchFiles, hasAnyFailure, alive,
                   spawnLog, exitLog, printed, uncaught, exitCode>>

\* RunBenchmarkStart without the await: the loop goes on at once
RunBenchmarkStart_NoAwait ==
    /\ pc = "loop"
    /\ idx <= Len(benchFiles)
    /\ ~isFilteredOut(testFilter, benchFiles[idx])
    /\ alive' = alive \cup {benchChild(benchFiles[idx], updateSnapshots)}
    /\ spawnLog' = Append(spawnLog, benchChild(benchFiles[idx], updateSnapshots))
    /\ results' = Append(results,
                         [test |-> benchFiles[idx], success |-> TRUE, skipped |-> FALSE])
    /\ idx' = idx + 1
    /\ UNCHANGED <<runnerVars, proberVars>>
    /\ UNCHANGED <<argv, dirListing, pc, updateSnapshots, shouldOnlyGenerate,
                   shouldSkipGenerate, testFilter, benchFiles, hasAnyFailure, exitLog,
                   printed, uncaught, exitCode>>

\* test.ts:38-39 and 107-113: runBenchmark starts `node benchFile` and awaits it
RunBenchmarkStart ==
    /\ pc = "loop"
    /\ idx <= Len(benchFiles)
    /\ ~isFilteredOut(testFilter, benchFiles[idx])
    /\ alive' = alive \cup {benchChild(benchFiles[idx], updateSnapshots)}
    /\ spawnLog' = Append(spawnLog, benchChild(benchFiles[idx], updateSnapshots))
    /\ pc' = "awaitBench"
    /\ UNCHANGED <<runnerVars, proberVars>>
    /\ UNCHANGED <<argv, dirListing, updateSnapshots, shouldOnlyGenerate,
                   shouldSkipGenerate, testFilter, benchFiles, idx, results,
                   hasAnyFailure, exitLog, printed, uncaught, exitCode>>

\* test.ts:114-117 and 38: the child exits with status 0
RunBenchmarkSuccess ==
    /\ pc = "awaitBench"
    /\ benchChild(benchFiles[idx], updateSnapshots) \in alive
    /\ alive' = alive \ {benchChild(benchFiles[idx], updateSnapshots)}
    /\ exitLog' = Append(exitLog, [child |-> benchChild(benchFiles[idx], updateSnapshots),
                                   code |-> 0])
    /\ results' = Append(results,
                         [test |-> benchFiles[idx], success |-> TRUE, skipped |-> FALSE])
    /\ idx' = idx + 1
    /\ pc' = "loop"
    /\ UNCHANGED <<runnerVars, proberVars>>
    /\ UNCHANGED <<argv, dirListing, updateSnapshots, shouldOnlyGenerate,
                   shouldSkipGenerate, testFilter, benchFiles, hasAnyFailure, spawnLog,
                   printed, uncaught, exitCode>>

\* RunBenchmarkFailure with the catch forgetting hasAnyFailure
RunBenchmarkFailure_NoFlag ==
    /\ pc = "awaitBench"
    /\ benchChild(benchFiles[idx], updateSnapshots) \in alive
    /\ alive' = alive \ {benchChild(benchFiles[idx], updateSnapshots)}
    /\ \E code \in ExitCodes \ {0} :
         exitLog' = Append(exitLog, [child |-> benchChild(benchFiles[idx], updateSnapshots),
                                     code |-> code])
    /\ results' = Append(results,
                         [test |-> benchFiles[idx], success |-> FALSE, skipped |-> FALSE])
    /\ idx' = idx + 1
    /\ pc' = "loop"
    /\ UNCHANGED <<runnerVars, proberVars>>
    /\ UNCHANGED <<argv, dirListing, updateSnapshots, shouldOnlyGenerate,
                   shouldSkipGenerate, testFilter, benchFiles, hasAnyFailure, spawnLog,
                   printed, uncaught, exitCode>>

\* RunBenchmarkFailure without the try/catch: the rejection leaves the script
RunBenchmarkFailure_Uncaught ==
    /\ pc = "awaitBench"
    /\ benchChild(benchFiles[idx], updateSnapshots) \in alive
    /\ alive' = alive \ {benchChild(benchFiles[idx], updateSnapshots)}
    /\ \E code \in ExitCodes \ {0} :
         exitLog' = Append(exitLog, [child |-> benchChild(benchFiles[idx], updateSnapshots),
                                     code |-> code])
    /\ Crash
    /\ UNCHANGED <<runnerVars, proberVars>>
    /\ UNCHANGED <<argv, dirListing, updateSnapshots, shouldOnlyGenerate,
                   shouldSkipGenerate, testFilter, benchFiles, idx, results,
                   hasAnyFailure, spawnLog, printed>>

\* test.ts:118-124 and 38: the child exits non-zero, execa rejects, the catch runs
RunBenchmarkFailure ==
    /\ pc = "awaitBench"
    /\ benchChild(benchFiles[idx], updateSnapshots) \in alive
    /\ alive' = alive \ {benchChild(benchFiles[idx], updateSnapshots)}
    /\ \E code \in ExitCodes \ {0} :
         exitLog' = Append(exitLog, [child |-> benchChild(benchFiles[idx], updateSnapshots),
                                     code |-> code])
    /\ hasAnyFailure' = TRUE
    /\ results' = Append(results,
                         [test |-> benchFiles[idx], success |-> FALSE, skipped |-> FALSE])
    /\ idx' = idx + 1
    /\ pc' = "loop"
    /\ UNCHANGED <<runnerVars, proberVars>>
    /\ UNCHANGED <<argv, dirListing, updateSnapshots, shouldOnlyGenerate,
                   shouldSkipGenerate, testFilter, benchFiles, spawnLog, printed,
                   uncaught, exitCode>>

\* test.ts:43 and 127-147
PrintResults ==
    /\ pc = "loop"
    /\ idx > Len(benchFiles)
    /\ printed' = printResults(results, updateSnapshots)
    /\ pc' = "exit"
    /\ UNCHANGED <<runnerVars, proberVars>>
    /\ UNCHANGED <<argv, dirListing, updateSnapshots, shouldOnlyGenerate,
                   shouldSkipGenerate, testFilter, benchFiles, idx, results,
                   hasAnyFailure, alive, spawnLog, exitLog, uncaught, exitCode>>

\* test.ts:45
ProcessExit ==
    /\ pc = "exit"
    /\ exitCode' = exitStatus(hasAnyFailure)
    /\ pc' = "done"
    /\ UNCHANGED <<runnerVars, proberVars>>
    /\ UNCHANGED <<argv, dirListing, updateSnapshots, shouldOnlyGenerate,
                   shouldSkipGenerate, testFilter, benchFiles, idx, results,
                   hasAnyFailure, alive, spawnLog, exitLog, printed, uncaught>>

Next ==
    \/ ParseFlagsConflict
    \/ ParseFlags
    \/ RunGenerate
    \/ SkipGenerate
    \/ GenerateSucceeds
    \/ GenerateFails
    \/ ExitOnlyGenerate
    \/ DiscoverFixtures
    \/ SkipFixture
    \/ RunBenchmarkStart
    \/ RunBenchmarkSuccess
    \/ RunBenchmarkFailure
    \/ PrintResults
    \/ ProcessExit

Spec == Init /\ [][Next]_vars

\* The script runs on whenever it can; a child process that was started exits
\* (every child has an outcome), which resumes the await of test.ts:92 / 109.
FairSpec ==
    /\ Spec
    /\ WF_vars(ParseFlagsConflict \/ ParseFlags \/ RunGenerate \/ SkipGenerate
               \/ ExitOnlyGenerate \/ DiscoverFixtures \/ SkipFixture
               \/ RunBenchmarkStart \/ PrintResults \/ ProcessExit)
    /\ WF_vars(GenerateSucceeds \/ GenerateFails)
    /\ WF_vars(RunBenchmarkSuccess \/ RunBenchmarkFailure)

----------------------------------------------------------------------------
(* Benchmark Runner: main and runBenchmark of src/measure-typechecking.ts *)

OrchIdle ==
    /\ argv = <<>>
    /\ dirListing = <<>>
    /\ pc = "idle"
    /\ updateSnapshots = FALSE
    /\ shouldOnlyGenerate = FALSE
    /\ shouldSkipGenerate = FALSE
    /\ testFilter = [defined |-> FALSE, value |-> <<>>]
    /\ benchFiles = <<>>
    /\ idx = 1
    /\ results = <<>>
    /\ hasAnyFailure = FALSE
    /\ alive = {}
    /\ spawnLog = <<>>
    /\ exitLog = <<>>
    /\ printed = <<>>
    /\ uncaught = FALSE
    /\ exitCode = 0

\* "--iterations=-1", "--iterations=1", .. , "--iterations=<MaxIterations>"
IterationArgs ==
    { IterationsPrefix \o <<"-", "1">> }
    \cup { IterationsPrefix \o <<Digits[n + 1]>> : n \in 1..MaxIterations }

\* Paths the model draws from
RunnerPaths == { <<"a">>, <<"b">> }

\* Command lines of the runner: the empty one, up to MaxFiles paths (a path
\* may be given twice) with an iteration count in front of them, and a single
\* path with the iteration count after it.  Iteration counts stay within
\* MaxIterations, which leaves out the command lines without a count (the
\* default of 5 iterations).
RunnerCommandLines ==
    {<<>>}
    \cup { <<it>> \o fs : it \in IterationArgs, fs \in SeqsUpTo(RunnerPaths, MaxFiles) }
    \cup { <<path, it>> : it \in IterationArgs, path \in RunnerPaths }

\* The state when node starts measure-typechecking.ts
RunnerInit ==
    /\ rArgs \in RunnerCommandLines
    /\ rpc = "main"
    /\ files = <<>>
    /\ iterations = 0
    /\ fpos = 0
    /\ iter = 0
    /\ rResults = [keys |-> <<>>, lists |-> <<>>]
    /\ probeLog = <<>>
    /\ summaryData = <<>>
    /\ comparisonData = <<>>
    /\ rUsage = FALSE
    /\ rUncaught = FALSE
    /\ rExitCode = 0
    /\ OrchIdle
    /\ ProberIdle

\* measure-typechecking.ts:214-223
MainUsage ==
    /\ rpc = "main"
    /\ Len(rArgs) = 0
    /\ rUsage' = TRUE
    /\ rExitCode' = 1
    /\ rpc' = "done"
    /\ UNCHANGED <<orchVars, proberVars>>
    /\ UNCHANGED <<rArgs, files, iterations, fpos, iter, rResults, probeLog,
                   summaryData, comparisonData, rUncaught>>

\* measure-typechecking.ts:225-235 and 85-93: main calls runBenchmark
MainRunBenchmark ==
    /\ rpc = "main"
    /\ Len(rArgs) # 0
    /\ iterations' = mainIterations(rArgs)
    /\ files' = mainFiles(rArgs)
    /\ fpos' = 1
    /\ rpc' = "warmup"
    /\ UNCHANGED <<orchVars, proberVars>>
    /\ UNCHANGED <<rArgs, iter, rResults, probeLog, summaryData, comparisonData,
                   rUsage, rUncaught, rExitCode>>

\* measure-typechecking.ts:94-96: one warm-up probe, its result dropped
WarmUp ==
    /\ rpc = "warmup"
    /\ fpos <= Len(files)
    /\ \E env \in RunnerEnvs :
         LET result == measureTypeChecking(files[fpos], env)
         IN  probeLog' = Append(probeLog,
                                [phase |-> "warmup", pos |-> fpos, file |-> result.file,
                                 met |-> unrecorded, failed |-> FALSE])
    /\ fpos' = fpos + 1
    /\ UNCHANGED <<orchVars, proberVars>>
    /\ UNCHANGED <<rArgs, rpc, files, iterations, iter, rResults, summaryData,
                   comparisonData, rUsage, rUncaught, rExitCode>>

\* measure-typechecking.ts:96-99: the warm-up loop ends, the measured loop starts
WarmUpDone ==
    /\ rpc = "warmup"
    /\ fpos > Len(files)
    /\ fpos' = 1
    /\ rpc' = "measure"
    /\ UNCHANGED <<orchVars, proberVars>>
    /\ UNCHANGED <<rArgs, files, iterations, iter, rResults, probeLog, summaryData,
                   comparisonData, rUsage, rUncaught, rExitCode>>

\* measure-typechecking.ts:99-103: the next file of the measured loop
MeasureFile ==
    /\ rpc = "measure"
    /\ fpos <= Len(files)
    /\ rResults' = resetKey(rResults, files[fpos])
    /\ iter' = 0
    /\ rpc' = "iterate"
    /\ UNCHANGED <<orchVars, proberVars>>
    /\ UNCHANGED <<rArgs, files, iterations, fpos, probeLog, summaryData,
                   comparisonData, rUsage, rUncaught, rExitCode>>

\* Iterate with a failed probe ending the whole measured phase
Iterate_FailureStopsRun ==
    /\ rpc = "iterate"
    /\ iter < iterations
    /\ \E env \in RunnerEnvs :
         LET result == measureTypeChecking(files[fpos], env)
         IN  /\ rResults' = pushResult(rResults, files[fpos], result)
             /\ probeLog' = Append(probeLog,
                                   [phase |-> "measure", pos |-> fpos, file |-> result.file,
                                    met |-> faultOf(env), failed |-> ~result.success])
             /\ IF result.success
                THEN /\ iter' = iter + 1
                     /\ UNCHANGED <<rpc, fpos>>
                ELSE /\ rpc' = "measure"
                     /\ fpos' = Len(files) + 1
                     /\ UNCHANGED iter
    /\ UNCHANGED <<orchVars, proberVars>>
    /\ UNCHANGED <<rArgs, files, iterations, summaryData, comparisonData, rUsage,
                   rUncaught, rExitCode>>

\* Iterate with a measureTypeChecking that has no catch block: an error of the
\* try block leaves the call, runBenchmark and main
Iterate_ErrorPropagates ==
    /\ rpc = "iterate"
    /\ iter < iterations
    /\ \E env \in RunnerEnvs :
         LET result == measureTypeChecking(files[fpos], env)
         IN  /\ probeLog' = Append(probeLog,
                                   [phase |-> "measure", pos |-> fpos, file |-> result.file,
                                    met |-> faultOf(env), failed |-> ~result.success])
             /\ IF env.exists /\ env.fault # "none"
                THEN /\ rUncaught' = TRUE
                     /\ rExitCode' = 1
                     /\ rpc' = "done"
                     /\ UNCHANGED <<rResults, iter, fpos>>
                ELSE /\ rResults' = pushResult(rResults, files[fpos], result)
                     /\ UNCHANGED <<rUncaught, rExitCode>>
                     /\ IF result.success
                        THEN /\ iter' = iter + 1
                             /\ UNCHANGED <<rpc, fpos>>
                        ELSE /\ rpc' = "measure"
                             /\ fpos' = fpos + 1
                             /\ UNCHANGED iter
    /\ UNCHANGED <<orchVars, proberVars>>
    /\ UNCHANGED <<rArgs, files, iterations, summaryData, comparisonData, rUsage>>

\* measure-typechecking.ts:103-110: one measured probe; a failed one breaks out
\* of the loop over i
Iterate ==
    /\ rpc = "iterate"
    /\ iter < iterations
    /\ \E env \in RunnerEnvs :
         LET result == measureTypeChecking(files[fpos], env)
         IN  /\ rResults' = pushResult(rResults, files[fpos], result)
             /\ probeLog' = Append(probeLog,
                                   [phase |-> "measure", pos |-> fpos, file |-> result.file,
                                    met |-> faultOf(env), failed |-> ~result.success])
             /\ IF result.success
                THEN /\ iter' = iter + 1
                     /\ UNCHANGED <<rpc, fpos>>
                ELSE /\ rpc' = "measure"
                     /\ fpos' = fpos + 1
                     /\ UNCHANGED iter
    /\ UNCHANGED <<orchVars, proberVars>>
    /\ UNCHANGED <<rArgs, files, iterations, summaryData, comparisonData, rUsage,
                   rUncaught, rExitCode>>

\* measure-typechecking.ts:103: i < iterations is false
IterateDone ==
    /\ rpc = "iterate"
    /\ iter >= iterations
    /\ rpc' = "measure"
    /\ fpos' = fpos + 1
    /\ UNCHANGED <<orchVars, proberVars>>
    /\ UNCHANGED <<rArgs, files, iterations, iter, rResults, probeLog, summaryData,
                   comparisonData, rUsage, rUncaught, rExitCode>>

\* measure-typechecking.ts:114-155: the summary table
Summarize ==
    /\ rpc = "measure"
    /\ fpos > Len(files)
    /\ summaryData' = summarize(rResults)
    /\ rpc' = "comparison"
    /\ UNCHANGED <<orchVars, proberVars>>
    /\ UNCHANGED <<rArgs, files, iterations, fpos, iter, rResults, probeLog,
                   comparisonData, rUsage, rUncaught, rExitCode>>

\* measure-typechecking.ts:158: no comparison for fewer than two rows
CompareSkipped ==
    /\ rpc = "comparison"
    /\ ~(Len(summaryData) > 1)
    /\ rpc' = "tips"
    /\ UNCHANGED <<orchVars, proberVars>>
    /\ UNCHANGED <<rArgs, files, iterations, fpos, iter, rResults, probeLog,
                   summaryData, comparisonData, rUsage, rUncaught, rExitCode>>

\* measure-typechecking.ts:158-197: the comparison table
Compare ==
    /\ rpc = "comparison"
    /\ Len(summaryData) > 1
    /\ validRows(summaryData) # <<>>
    /\ comparisonData' = compare(summaryData)
    /\ rpc' = "tips"
    /\ UNCHANGED <<orchVars, proberVars>>
    /\ UNCHANGED <<rArgs, files, iterations, fpos, iter, rResults, probeLog,
                   summaryData, rUsage, rUncaught, rExitCode>>

\* measure-typechecking.ts:166: validData is empty and reduce has no initial
\* value: a TypeError, which nothing catches; node exits with status 1
CompareThrows ==
    /\ rpc = "comparison"
    /\ Len(summaryData) > 1
    /\ validRows(summaryData) = <<>>
    /\ rUncaught' = TRUE
    /\ rExitCode' = 1
    /\ rpc' = "done"
    /\ UNCHANGED <<orchVars, proberVars>>
    /\ UNCHANGED <<rArgs, files, iterations, fpos, iter, rResults, probeLog,
                   summaryData, comparisonData, rUsage>>

\* measure-typechecking.ts:200-209 and 235-238: runBenchmark and main return,
\* the process ends with status 0
MainReturns ==
    /\ rpc = "tips"
    /\ rExitCode' = 0
    /\ rpc' = "done"
    /\ UNCHANGED <<orchVars, proberVars>>
    /\ UNCHANGED <<rArgs, files, iterations, fpos, iter, rResults, probeLog,
                   summaryData, comparisonData, rUsage, rUncaught>>

RunnerNext ==
    \/ MainUsage
    \/ MainRunBenchmark
    \/ WarmUp
    \/ WarmUpDone
    \/ MeasureFile
    \/ Iterate
    \/ IterateDone
    \/ Summarize
    \/ CompareSkipped
    \/ Compare
    \/ CompareThrows
    \/ MainReturns

RunnerSpec == RunnerInit /\ [][RunnerNext]_vars

----------------------------------------------------------------------------
(* Prober: one call of measureTypeChecking, followed step by step.  The     *)
(* steps collect in pEnv what the call meets; the Measurement returned is   *)
(* measureTypeChecking(pFile, pEnv).                                        *)

MaxClock == 2
MaxDiagnostics == 1

\* messages of the errors the compiler API throws; "" is an Error without message
ThrownMessages == {"boom", ""}

readClock(env, now) == [env EXCEPT !.clock = Append(@, now)]

ProberInit ==
    /\ pFile \in RunnerPaths
    /\ ppc = "call"
    /\ pNow = 0
    /\ pEnv = noEnv
    /\ pResult = measureTypeChecking(<<>>, [noEnv EXCEPT !.exists = FALSE])
    /\ OrchIdle
    /\ RunnerIdle

\* performance.now() is monotonic: time passes between two steps of the call
ClockAdvances ==
    /\ ppc \in {"config", "program", "typecheck", "checked"}
    /\ pNow < MaxClock
    /\ pNow' = pNow + 1
    /\ UNCHANGED <<pFile, ppc, pEnv, pResult>>
    /\ UNCHANGED <<orchVars, runnerVars>>

\* a variant of FileMissing: the missing file is only found out by the
\* compiler, inside the timed try block
FileMissing_Timed ==
    /\ ppc = "call"
    /\ pEnv' = [pEnv EXCEPT !.exists = FALSE]
    /\ pResult' = measureTypeChecking(pFile, [noEnv EXCEPT !.fault = "throws",
                                                          !.message = "File not found",
                                                          !.clock = <<pNow, pNow + 1>>])
    /\ ppc' = "returned"
    /\ UNCHANGED <<pFile, pNow>>
    /\ UNCHANGED <<orchVars, runnerVars>>

\* measure-typechecking.ts:16-27: fs.existsSync(fullPath) is false
FileMissing ==
    /\ ppc = "call"
    /\ pEnv' = [pEnv EXCEPT !.exists = FALSE]
    /\ pResult' = measureTypeChecking(pFile, pEnv')
    /\ ppc' = "returned"
    /\ UNCHANGED <<pFile, pNow>>
    /\ UNCHANGED <<orchVars, runnerVars>>

\* measure-typechecking.ts:16-29: the file exists; startTotal is read
EnterTry ==
    /\ ppc = "call"
    /\ pEnv' = readClock(pEnv, pNow)
    /\ ppc' = "config"
    /\ UNCHANGED <<pFile, pNow, pResult>>
    /\ UNCHANGED <<orchVars, runnerVars>>

\* measure-typechecking.ts:33-40 and 72-82: findConfigFile finds nothing
ConfigNotFound ==
    /\ ppc = "config"
    /\ pEnv' = readClock([pEnv EXCEPT !.fault = "noConfig"], pNow)
    /\ pResult' = measureTypeChecking(pFile, pEnv')
    /\ ppc' = "returned"
    /\ UNCHANGED <<pFile, pNow>>
    /\ UNCHANGED <<orchVars, runnerVars>>

\* measure-typechecking.ts:33-47: the configuration is found, read and parsed
ConfigRead ==
    /\ ppc = "config"
    /\ ppc' = "program"
    /\ UNCHANGED <<pFile, pNow, pEnv, pResult>>
    /\ UNCHANGED <<orchVars, runnerVars>>

\* measure-typechecking.ts:50-53: the program is created; startTypeCheck is read
ProgramCreated ==
    /\ ppc = "program"
    /\ pEnv' = readClock(pEnv, pNow)
    /\ ppc' = "typecheck"
    /\ UNCHANGED <<pFile, pNow, pResult>>
    /\ UNCHANGED <<orchVars, runnerVars>>

\* measure-typechecking.ts:41-60 and 72-82: reading the configuration,
\* creating the program or collecting the diagnostics throws; the catch block
\* reads endTotal
TryThrows ==
    /\ ppc \in {"config", "program", "typecheck"}
    /\ \E message \in ThrownMessages :
         pEnv' = readClock([pEnv EXCEPT !.fault = "throws", !.message = message], pNow)
    /\ pResult' = measureTypeChecking(pFile, pEnv')
    /\ ppc' = "returned"
    /\ UNCHANGED <<pFile, pNow>>
    /\ UNCHANGED <<orchVars, runnerVars>>

\* measure-typechecking.ts:56-62: the diagnostics are collected; endTypeCheck is read
DiagnosticsCollected ==
    /\ ppc = "typecheck"
    /\ \E n \in 0..MaxDiagnostics :
         pEnv' = readClock([pEnv EXCEPT !.diagnostics = n], pNow)
    /\ ppc' = "checked"
    /\ UNCHANGED <<pFile, pNow, pResult>>
    /\ UNCHANGED <<orchVars, runnerVars>>

\* measure-typechecking.ts:63-71: endTotal is read and the Measurement returned
ProbeReturns ==
    /\ ppc = "checked"
    /\ pEnv' = readClock(pEnv, pNow)
    /\ pResult' = measureTypeChecking(pFile, pEnv')
    /\ ppc' = "returned"
    /\ UNCHANGED <<pFile, pNow>>
    /\ UNCHANGED <<orchVars, runnerVars>>

ProberNext ==
    \/ ClockAdvances
    \/ FileMissing
    \/ EnterTry
    \/ ConfigNotFound
    \/ ConfigRead
    \/ ProgramCreated
    \/ TryThrows
    \/ DiagnosticsCollected
    \/ ProbeReturns

ProberSpec == ProberInit /\ [][ProberNext]_vars

----------------------------------------------------------------------------
(* What a run of the orchestrator did, read off the command line and the  *)
(* logs of child processes                                                 *)

hasOnlyGenerate == \E i \in 1..Len(argv) : argv[i] = FlagOnlyGenerate
hasSkipGenerate == \E i \in 1..Len(argv) : argv[i] = FlagSkipGenerate

\* the generator was run and exited non-zero
generationFailed ==
    \E i \in 1..Len(exitLog) : exitLog[i].child.cmd = "prisma" /\ exitLog[i].code # 0

\* the generator was run and exited with status 0
generationSucceeded ==
    \E i \in 1..Len(exitLog) : exitLog[i].child.cmd = "prisma" /\ exitLog[i].code = 0

\* number of child processes started for fixture f
spawnCount(f) ==
    Cardinality({ i \in 1..Len(spawnLog) :
                    spawnLog[i].cmd = "node" /\ spawnLog[i].file = f })

\* the subprocess of fixture f was run and exited non-zero / with status 0
exitedNonZero(f) ==
    \E i \in 1..Len(exitLog) :
        exitLog[i].child.cmd = "node" /\ exitLog[i].child.file = f /\ exitLog[i].code # 0
exitedZero(f) ==
    \E i \in 1..Len(exitLog) :
        exitLog[i].child.cmd = "node" /\ exitLog[i].child.file = f /\ exitLog[i].code = 0

\* the fixtures of the directory, as a set
fixtureNames ==
    { dirListing[i].name : i \in { j \in 1..Len(dirListing) :
          dirListing[j].isFile /\ endsWith(dirListing[j].name, BenchSuffix) } }

\* f is the supplied filter: the first argument that does not start with "-"
isSuppliedFilter(f) ==
    \E i \in 1..Len(argv) :
        /\ argv[i] = f
        /\ (f = <<>> \/ Head(f) # "-")
        /\ \A j \in 1..(i - 1) : argv[j] # <<>> /\ Head(argv[j]) = "-"

\* fixture f passes the filter of the command line, if there is one
passesFilter(f) == \A flt \in ArgPool : isSuppliedFilter(flt) => includes(f, flt)

\* the fixtures under the table's header, i.e. lines 4 .. of the printed table
tableRows == { i \in 1..Len(printed) : printed[i].status \in {"Skipped", "Success", "Failed"} }

completedNormally == pc = "done" /\ ~uncaught /\ ~hasOnlyGenerate

----------------------------------------------------------------------------
(* Claims about the Batch Orchestrator *)

\* C1: once generation has succeeded or been skipped and --onlyGenerate is
\* absent, the process exits with status 1 if at least one fixture subprocess
\* that was run exited non-zero, and with status 0 otherwise.
C1_ExitStatus ==
    (pc = "done" /\ ~hasOnlyGenerate /\ ~generationFailed)
        => exitCode = (IF \E f \in fixtureNames : exitedNonZero(f) THEN 1 ELSE 0)

\* a run with a failed, a successful and no further fixture ends with status 1,
\* and one with a skipped and a successful fixture with status 0
C1_Witness ==
    /\ pc = "done" /\ ~hasOnlyGenerate /\ ~generationFailed
    /\ exitCode = 1
    /\ \E f, g \in fixtureNames : exitedNonZero(f) /\ exitedZero(g)

\* C2: in the printed results table a fixture is marked failed exactly when
\* its subprocess was run and exited non-zero, and marked success exactly when
\* its subprocess was run and exited zero; the table has one row per
\* discovered fixture.
C2_OutcomeMarking ==
    (pc \in {"exit", "done"} /\ printed # <<>>)
        => /\ { printed[i].test : i \in tableRows } = fixtureNames
           /\ Cardinality(tableRows) = Cardinality(fixtureNames)
           /\ \A i \in tableRows :
                /\ printed[i].status = "Failed" <=> exitedNonZero(printed[i].test)
                /\ printed[i].status = "Success" <=> exitedZero(printed[i].test)

\* exactly one of two fixture subprocesses exited non-zero, and exactly that
\* fixture is marked failed
C2_Witness ==
    /\ pc = "done"
    /\ Cardinality(fixtureNames) = 2
    /\ Cardinality({ f \in fixtureNames : exitedNonZero(f) }) = 1
    /\ \A i \in tableRows : printed[i].status = "Failed" <=> exitedNonZero(printed[i].test)
    /\ \E i \in tableRows : printed[i].status = "Failed"

\* C3: with a filter supplied, a discovered fixture whose name does not
\* contain the filter is recorded as skipped, has no subprocess and no effect
\* on the exit code; a fixture whose name contains it is executed.
C3_NameFilter ==
    \A flt \in ArgPool :
        isSuppliedFilter(flt) =>
            /\ \A i \in 1..Len(spawnLog) :
                 spawnLog[i].cmd = "node" => includes(spawnLog[i].file, flt)
            /\ \A i \in 1..Len(results) :
                 results[i].skipped <=> ~includes(results[i].test, flt)
            /\ completedNormally =>
                 /\ \A f \in fixtureNames :
                      IF includes(f, flt)
                      THEN spawnCount(f) = 1 /\ (exitedZero(f) \/ exitedNonZero(f))
                      ELSE /\ spawnCount(f) = 0
                           /\ \E i \in 1..Len(results) :
                                results[i].test = f /\ results[i].skipped
                 /\ exitCode = (IF \E f \in fixtureNames :
                                      includes(f, flt) /\ exitedNonZero(f)
                                THEN 1 ELSE 0)

\* filter "a" over a.bench.ts and b.bench.ts: b.bench.ts skipped, only
\* a.bench.ts executed, exit status 0
C3_Witness ==
    /\ completedNormally
    /\ isSuppliedFilter(<<"a">>)
    /\ fixtureNames = {<<"a">> \o BenchSuffix, <<"b">> \o BenchSuffix}
    /\ spawnCount(<<"a">> \o BenchSuffix) = 1
    /\ spawnCount(<<"b">> \o BenchSuffix) = 0
    /\ \E i \in 1..Len(results) : results[i].test = <<"b">> \o BenchSuffix /\ results[i].skipped
    /\ exitCode = 0

\* C4: with both --onlyGenerate and --skipGenerate the orchestrator fails
\* with an error before the generation subprocess is started and before any
\* fixture is discovered or run, whatever the other arguments.
C4_ConflictingFlags ==
    (hasOnlyGenerate /\ hasSkipGenerate)
        => /\ pc \in {"parse", "done"}
           /\ spawnLog = <<>>
           /\ benchFiles = <<>>
           /\ results = <<>>
           /\ printed = <<>>
           /\ pc = "done" => (uncaught /\ exitCode = 1)

\* both flags and a third argument, a directory with fixtures, and the run
\* has ended with the error
C4_Witness ==
    /\ hasOnlyGenerate /\ hasSkipGenerate
    /\ Len(argv) = 3
    /\ fixtureNames # {}
    /\ pc = "done" /\ uncaught

\* C5: if the code-generation subprocess exits non-zero, the orchestrator
\* terminates without discovering fixtures, without spawning a fixture
\* subprocess and without printing a results table, and not with status 0.
C5_GenerationFailure ==
    generationFailed
        => /\ pc = "done"
           /\ uncaught
           /\ exitCode # 0
           /\ benchFiles = <<>>
           /\ results = <<>>
           /\ printed = <<>>
           /\ \A i \in 1..Len(spawnLog) : spawnLog[i].cmd # "node"

\* the generator has failed in a directory that holds fixtures
C5_Witness ==
    /\ generationFailed
    /\ fixtureNames # {}
    /\ pc = "done"

\* C6: a fixture subprocess that exits non-zero never prevents later fixtures
\* from running: each discovered fixture that passes the filter is spawned
\* exactly once by the time of the aggregation step, never more than once
\* before, and the loop always reaches the aggregation step.
C6_SiblingIsolation ==
    /\ [](\A f \in fixtureNames : spawnCount(f) <= 1)
    /\ [](pc = "exit" => \A f \in fixtureNames : passesFilter(f) => spawnCount(f) = 1)
    /\ (pc = "loop" ~> pc = "exit")

\* the first fixture run exited non-zero and a later one was run all the same
C6_Witness ==
    /\ pc = "exit"
    /\ Len(exitLog) >= 2
    /\ \E i \in 1..(Len(exitLog) - 1) :
         /\ exitLog[i].child.cmd = "node" /\ exitLog[i].code # 0
         /\ exitLog[i + 1].child.cmd = "node"

\* C7: at every moment at most one child process (the generator or one
\* fixture subprocess) is alive; a child is started only after the previous
\* one has completed.
C7_NoConcurrentFanOut ==
    /\ Cardinality(alive) <= 1
    /\ Cardinality(alive) = Len(spawnLog) - Len(exitLog)
    /\ \A i \in 1..Len(exitLog) : exitLog[i].child = spawnLog[i]

\* a fixture subprocess is alive after the generator and an earlier fixture
\* subprocess have completed
C7_Witness ==
    /\ Cardinality(alive) = 1
    /\ \E c \in alive : c.cmd = "node"
    /\ Len(exitLog) >= 2

\* C8: with --onlyGenerate (and no --skipGenerate) the orchestrator runs the
\* generation step and, if it succeeds, exits with status 0 without
\* discovering or running any fixture.
C8_GenerateOnly ==
    (hasOnlyGenerate /\ ~hasSkipGenerate)
        => /\ pc \in {"parse", "generate", "awaitGenerate", "afterGenerate", "done"}
           /\ \A i \in 1..Len(spawnLog) : spawnLog[i] = generateChild
           /\ benchFiles = <<>> /\ results = <<>> /\ printed = <<>>
           /\ pc \in {"afterGenerate", "done"} => spawnLog = <<generateChild>>
           /\ (pc = "done" /\ generationSucceeded) => (exitCode = 0 /\ ~uncaught)
           /\ (pc = "done" /\ ~generationSucceeded) => (generationFailed /\ exitCode # 0)

\* generate-only run that ended with status 0 in a directory with two fixtures
C8_Witness ==
    /\ hasOnlyGenerate /\ ~hasSkipGenerate
    /\ pc = "done" /\ generationSucceeded /\ exitCode = 0
    /\ Cardinality(fixtureNames) = 2

----------------------------------------------------------------------------
(* What a run of the runner did, read off the log of probes *)

\* the warm-up probes / measured probes of entry k of files, as indices of probeLog
warmUpsAt(k) ==
    { i \in 1..Len(probeLog) : probeLog[i].phase = "warmup" /\ probeLog[i].pos = k }
measuredAt(k) ==
    { i \in 1..Len(probeLog) : probeLog[i].phase = "measure" /\ probeLog[i].pos = k }

\* the same for a fixture, i.e. a path, wherever it stands in files
warmUpsOf(path) ==
    { i \in 1..Len(probeLog) : probeLog[i].phase = "warmup" /\ probeLog[i].file = path }
measuredOf(path) ==
    { i \in 1..Len(probeLog) : probeLog[i].phase = "measure" /\ probeLog[i].file = path }

fixturePaths == { files[k] : k \in 1..Len(files) }

warmUpOver == rpc \notin {"main", "warmup"}
measuredPhaseOver == rpc \in {"comparison", "tips", "done"} /\ ~rUsage

\* the measured loop has left entry k behind
measuredPast(k) == measuredPhaseOver \/ (rpc = "measure" /\ fpos > k)

budget == IF iterations > 0 THEN iterations ELSE 0

----------------------------------------------------------------------------
(* Claims about the Benchmark Runner *)

\* C9, as stated: each fixture (a fixture is identified by its path) is probed
\* exactly once in the warm-up phase and then at most N times in the measured
\* phase, and no further measured probe of a fixture happens after its first
\* failed measurement.  "At most N" is read as "none" for N < 0, the reading
\* most favourable to the statement.
C9_PerFixtureBudget ==
    \A path \in fixturePaths :
        /\ warmUpOver => Cardinality(warmUpsOf(path)) = 1
        /\ Cardinality(measuredOf(path)) <= budget
        /\ \A i, j \in measuredOf(path) : i < j => ~probeLog[i].failed

\* C9, amended: each entry of the list of paths is probed exactly once in the
\* warm-up phase, before any measured probe, and then at most max(N, 0) times
\* in the measured phase; no measured probe of an entry follows a failed one
\* of that entry; and a failure never stops the probes of the later entries:
\* every entry gets its max(N, 0) probes unless its own last probe failed.
C9_ProbeBudget ==
    /\ \A i \in 1..(Len(probeLog) - 1) :
         probeLog[i].phase = "measure" => probeLog[i + 1].phase = "measure"
    /\ \A k \in 1..Len(files) :
         LET warm == warmUpsAt(k)
             measured == measuredAt(k)
             failures == { i \in measured : probeLog[i].failed }
         IN  /\ Cardinality(warm) <= 1
             /\ (warmUpOver \/ (rpc = "warmup" /\ fpos > k)) => Cardinality(warm) = 1
             /\ \A i \in warm \cup measured : probeLog[i].file = files[k]
             /\ Cardinality(measured) <= budget
             /\ \A i \in failures : \A j \in measured : j <= i
             /\ measuredPast(k) => (Cardinality(measured) = budget \/ failures # {})

\* two entries, N = 2: the first measurement of the first entry failed, and
\* the second entry was measured twice
C9_Witness ==
    /\ rpc = "done"
    /\ Len(files) = 2 /\ iterations = 2
    /\ Cardinality(measuredAt(1)) = 1
    /\ \E i \in measuredAt(1) : probeLog[i].failed
    /\ Cardinality(measuredAt(2)) = 2
    /\ Cardinality(warmUpsAt(1)) = 1 /\ Cardinality(warmUpsAt(2)) = 1

\* C10: for every non-empty list of paths and every combination of probe
\* successes and failures, runBenchmark completes its summary and comparison
\* steps without an uncaught error and the process does not exit with a
\* failure status.
C10_AlwaysExitsSuccessfully ==
    (rpc = "done" /\ Len(files) >= 1) => (~rUncaught /\ rExitCode = 0)

----------------------------------------------------------------------------
(* The tables of the runner, read against the measurements they are built from *)

\* the keys of results whose summary row carries numbers
validKeys ==
    { k \in 1..Len(rResults.keys) :
        Len(rResults.lists[k]) > 0 /\ rResults.lists[k][1].success }

comparisonProduced == rpc \in {"tips", "done"} /\ ~rUncaught /\ Len(summaryData) > 1

\* the row of the comparison table of a file (files are the keys of results)
comparisonRowsOf(file) ==
    { i \in 1..Len(comparisonData) : comparisonData[i].File = file }

\* the displayed average of a file, in hundredths of a millisecond
displayedAvg(file) ==
    LET k == CHOOSE k \in 1..Len(summaryData) : summaryData[k].File = file
    IN  summaryData[k].avg.hundredths

lowestDisplayedAvg(file) ==
    \A k \in validKeys : displayedAvg(file) <= displayedAvg(rResults.keys[k])

ratioIsOne(row) == row.ratio.kind = "finite" /\ row.diff = 0
ratioAtLeastOne(row) ==
    \/ row.ratio.kind = "Infinity"
    \/ row.ratio.kind = "finite" /\ row.diff >= 0

\* C11: in every comparison table the runner produces, the fixture with the
\* lowest average type-check time has ratio exactly 1 and is labelled
\* BASELINE, and every other fixture of the table has a ratio >= 1, also when
\* averages tie and when the lowest displayed average is 0.00.
C11_BaselineRatio ==
    comparisonProduced =>
        \A i \in 1..Len(comparisonData) :
            LET row == comparisonData[i]
            IN  IF lowestDisplayedAvg(row.File)
                THEN ratioIsOne(row) /\ row.speed = "BASELINE"
                ELSE ratioAtLeastOne(row)

----------------------------------------------------------------------------
(* Claims about the Prober *)

\* C12: for every path that does not exist, measureTypeChecking returns a
\* Measurement with success = false, a non-empty error message,
\* typeCheckTime = 0, totalTime = 0 and diagnosticsCount = 0, and no exception
\* leaves the call.
C12_MissingFile ==
    ~pEnv.exists =>
        /\ ppc = "returned"
        /\ pResult.file = pFile
        /\ ~pResult.success
        /\ pResult.error.defined /\ pResult.error.message # ""
        /\ pResult.typeCheckTime = 0
        /\ pResult.totalTime = 0
        /\ pResult.diagnosticsCount = 0

\* a call for a path that does not exist has returned
C12_Witness ==
    /\ ppc = "returned" /\ ~pEnv.exists
    /\ pFile # <<>>
    /\ ~pResult.success

\* the readings of performance.now() a returned call has made are in the order
\* startTotal, startTypeCheck, endTypeCheck, endTotal (or startTotal, ...,
\* endTotal of the catch block)
readingsInOrder ==
    \A i, j \in 1..Len(pEnv.clock) : i <= j => pEnv.clock[i] <= pEnv.clock[j]

\* C13: with a monotonic clock, every Measurement returned satisfies
\* totalTime >= typeCheckTime >= 0, on the success path, whose readings are
\* taken in the order startTotal, startTypeCheck, endTypeCheck, endTotal, and
\* on every failure path.
C13_TimesOrdered ==
    /\ readingsInOrder
    /\ ppc = "returned" =>
         /\ pResult.typeCheckTime >= 0
         /\ pResult.totalTime >= pResult.typeCheckTime
         /\ pResult.success =>
              /\ Len(pEnv.clock) = 4
              /\ pResult.typeCheckTime = pEnv.clock[3] - pEnv.clock[2]
              /\ pResult.totalTime = pEnv.clock[4] - pEnv.clock[1]

\* a successful probe whose type check took time, and less time than the
\* whole call
C13_Witness ==
    /\ ppc = "returned" /\ pResult.success
    /\ pResult.typeCheckTime > 0
    /\ pResult.totalTime > pResult.typeCheckTime

\* the measured probes that met an error inside the try block of
\* measureTypeChecking, as indices of probeLog
tryFaults ==
    { i \in 1..Len(probeLog) :
        probeLog[i].phase = "measure" /\ probeLog[i].met.fault \in {"noConfig", "throws"} }

\* the message of the error a probe met
messageOf(met) ==
    IF met.fault = "noConfig" THEN "Could not find a valid 'tsconfig.json'."
    ELSE met.message

\* the list of results of a file
resultsOf(res, file) ==
    res.lists[CHOOSE k \in 1..Len(res.keys) : res.keys[k] = file]

\* a step in which a measured probe meets an error inside the try block: the
\* runner gets a Measurement with success = false, typeCheckTime = 0 and the
\* message of the error, stores it and goes to the next entry of files
C14_ErrorStep ==
    (/\ Len(probeLog') = Len(probeLog) + 1
     /\ Len(probeLog') \in { i \in 1..Len(probeLog') :
            probeLog'[i].phase = "measure"
            /\ probeLog'[i].met.fault \in {"noConfig", "throws"} })
    => LET met == probeLog'[Len(probeLog')].met
           before == resultsOf(rResults, files[fpos])
           after == resultsOf(rResults', files[fpos])
           result == after[Len(after)]
       IN  /\ Len(after) = Len(before) + 1
           /\ after = Append(before, result)
           /\ result.file = files[fpos]
           /\ ~result.success
           /\ result.typeCheckTime = 0
           /\ result.error = [defined |-> TRUE, message |-> messageOf(met)]
           /\ probeLog'[Len(probeLog')].failed
           /\ ~rUncaught' /\ rpc' = "measure" /\ fpos' = fpos + 1

\* after such an error the entries that follow in files are still probed
C14_RunGoesOn ==
    \A i \in tryFaults :
        \A k \in (probeLog[i].pos + 1)..Len(files) :
            measuredPast(k) => measuredAt(k) # {}

\* C14: any error raised while locating the configuration, constructing the
\* program or collecting diagnostics (a missing tsconfig.json included) is
\* returned as a Measurement with success = false, typeCheckTime = 0 and the
\* error's message; it never propagates to the runner, which goes on to probe
\* the remaining fixtures.
C14_ErrorsBecomeMeasurements == []C14_RunGoesOn /\ [][C14_ErrorStep]_vars

\* two entries, N = 2: the first probe of the first entry found no
\* tsconfig.json, the second entry was then measured twice, and the run ended
C14_Witness ==
    /\ rpc = "done" /\ ~rUncaught
    /\ Len(files) = 2 /\ iterations = 2
    /\ \E i \in tryFaults : probeLog[i].pos = 1 /\ probeLog[i].met.fault = "noConfig"
    /\ Cardinality(measuredAt(2)) = 2
    /\ \A i \in measuredAt(2) : ~probeLog[i].failed

\* the command line names no path to probe
noPositionalPath ==
    \A i \in 1..Len(rArgs) : startsWith(rArgs[i], IterationsPrefix)

\* C15: whenever the runner is invoked without a file path to probe, it prints
\* the usage text and exits with status 1 without invoking the prober.
C15_UsageError ==
    noPositionalPath =>
        /\ probeLog = <<>>
        /\ rpc = "done" => (rUsage /\ rExitCode = 1)

summaryProduced == rpc \in {"comparison", "tips", "done"} /\ ~rUsage

\* the typeCheckTime of the successful measurements of key k of results
successfulTimes(k) ==
    LET successful == SelectSeq(rResults.lists[k], LAMBDA r : r.success)
    IN  [i \in 1..Len(successful) |-> successful[i].typeCheckTime]

\* C16: for every fixture whose first measurement succeeded, the average,
\* minimum and maximum of the summary are computed over the typeCheckTime of
\* its successful measurements; a measurement that failed in a later
\* iteration (typeCheckTime 0) enters neither the average nor the minimum.
C16_SuccessfulIterationsOnly ==
    summaryProduced =>
        \A k \in validKeys :
            LET times == successfulTimes(k)
                row == summaryData[k]
            IN  /\ row.File = rResults.keys[k]
                /\ row.avg = numberText(toFixed2(sumSeq(times), Len(times)))
                /\ row.min = numberText(toFixed2(minSeq(times), 1))
                /\ row.max = numberText(toFixed2(maxSeq(times), 1))

\* the rows of a fixture in the summary table, as indices of summaryData
summaryRowsOf(path) ==
    { k \in 1..Len(summaryData) : summaryData[k].File = path }

flaggedError(path) ==
    \E k \in summaryRowsOf(path) : summaryData[k].avg = errorText

firstOf(S) == CHOOSE i \in S : \A j \in S : i <= j

\* the last entry of files that names the path
lastEntryOf(path) ==
    CHOOSE k \in 1..Len(files) : files[k] = path /\ \A j \in (k + 1)..Len(files) : files[j] # path

\* C17, as stated: a fixture (a path) is flagged ERROR in the summary table and
\* left out of the comparison table if and only if it has no measurement or
\* its first measured probe failed; every other probed fixture appears in the
\* comparison table exactly once whenever that table is produced.
C17_FirstProbeDecides ==
    summaryProduced =>
        \A path \in fixturePaths :
            LET measured == measuredOf(path)
                failedFirst == measured = {} \/ probeLog[firstOf(measured)].failed
            IN  /\ flaggedError(path) <=> failedFirst
                /\ comparisonProduced =>
                     Cardinality(comparisonRowsOf(path)) = IF failedFirst THEN 0 ELSE 1

\* C17, amended: the measurements kept for a fixture are those of the last
\* entry of files that names it.  The fixture has exactly one row in the
\* summary table; it is flagged ERROR and left out of the comparison table if
\* and only if that entry has no measurement or its first measured probe
\* failed; every other fixture appears in the comparison table exactly once
\* whenever that table is produced.
C17_ErrorRows ==
    summaryProduced =>
        \A path \in fixturePaths :
            LET measured == measuredAt(lastEntryOf(path))
                failedFirst == measured = {} \/ probeLog[firstOf(measured)].failed
            IN  /\ Cardinality(summaryRowsOf(path)) = 1
                /\ flaggedError(path) <=> failedFirst
                /\ comparisonProduced =>
                     Cardinality(comparisonRowsOf(path)) = IF failedFirst THEN 0 ELSE 1

\* a comparison table was produced for two fixtures: the first measured probe
\* of a failed, b was measured twice; a is flagged ERROR and is not in the
\* table, b is in it once
C17_Witness ==
    /\ comparisonProduced
    /\ files = << <<"a">>, <<"b">> >> /\ iterations = 2
    /\ probeLog[firstOf(measuredOf(<<"a">>))].failed
    /\ Cardinality(measuredOf(<<"b">>)) = 2
    /\ flaggedError(<<"a">>) /\ ~flaggedError(<<"b">>)
    /\ comparisonRowsOf(<<"a">>) = {}
    /\ Cardinality(comparisonRowsOf(<<"b">>)) = 1

----------------------------------------------------------------------------
(* More claims about the Batch Orchestrator *)

\* the phase the top-level script is in: 1 parse flags, 2 generate,
\* 3 generation over and discovery ahead, 4 fixtures discovered and being
\* run, 5 results aggregated and printed, 6 process exited
phaseOf(p) ==
    CASE p = "parse" -> 1
      [] p \in {"generate", "awaitGenerate"} -> 2
      [] p = "afterGenerate" -> 3
      [] p \in {"loop", "awaitBench"} -> 4
      [] p = "exit" -> 5
      [] p = "done" -> 6

generationStarts ==
    Cardinality({ i \in 1..Len(spawnLog) : spawnLog[i] = generateChild })

fixtureStarted == \E i \in 1..Len(spawnLog) : spawnLog[i].cmd = "node"

\* a step goes on in the same phase, enters the next one, or ends the process
C18_PhaseStep ==
    \/ phaseOf(pc') = phaseOf(pc)
    \/ phaseOf(pc') = phaseOf(pc) + 1
    \/ pc' = "done"

C18_GenerateOnce ==
    /\ generationStarts <= 1
    /\ phaseOf(pc) = 1 => spawnLog = <<>>
    /\ pc \notin {"parse", "generate"} => (generationStarts = 1 <=> ~hasSkipGenerate)
    /\ (phaseOf(pc) \in {4, 5} \/ fixtureStarted \/ benchFiles # <<>> \/ results # <<>>)
         => /\ generateChild \notin alive
            /\ ~generationFailed
            /\ hasSkipGenerate \/ generationSucceeded
    /\ phaseOf(pc) < 4 => (~fixtureStarted /\ benchFiles = <<>> /\ results = <<>>)
    /\ phaseOf(pc) < 5 => printed = <<>>

\* C18: the orchestrator's phases run in the fixed order parse flags,
\* generate, discover, run fixtures, aggregate, with no return to an earlier
\* phase; the generation subprocess is started at most once, is started if
\* and only if --skipGenerate is absent, and has completed successfully
\* before fixture discovery and before any fixture subprocess starts.
C18_PhaseOrder == []C18_GenerateOnce /\ [][C18_PhaseStep]_vars

\* a run without --skipGenerate that went through every phase: the generator
\* was started once and exited with status 0, two fixtures were run and the
\* results printed
C18_Witness ==
    /\ pc = "done" /\ ~uncaught
    /\ ~hasSkipGenerate /\ generationStarts = 1 /\ generationSucceeded
    /\ Len(benchFiles) = 2
    /\ \A i \in 1..Len(benchFiles) : spawnCount(benchFiles[i]) = 1
    /\ printed # <<>>

\* results has an entry that failed and was not skipped
failedEntry == \E i \in 1..Len(results) : ~results[i].success /\ ~results[i].skipped

\* the number of fixtures the loop of test.ts:28 has dealt with
processedSoFar == IF phaseOf(pc) \in {4, 5} \/ benchFiles # <<>> THEN idx - 1 ELSE 0

C19_FlagMatchesResults ==
    /\ hasAnyFailure <=> failedEntry
    /\ Len(results) = processedSoFar
    /\ Len(results) <= Len(benchFiles)
    /\ \A i \in 1..Len(results) : results[i].test = benchFiles[i]
    /\ \A i \in 1..Len(results) : results[i].skipped => ~results[i].success

\* a step never resets the flag, and a step that appends a skipped entry
\* leaves the flag as it is
C19_FlagStep ==
    /\ hasAnyFailure => hasAnyFailure'
    /\ (Len(results') = Len(results) + 1 /\ results'[Len(results')].skipped)
         => hasAnyFailure' = hasAnyFailure

\* C19: at every point of the fixture loop and at exit, hasAnyFailure is true
\* if and only if results contains an entry with success = false that is not
\* skipped; skipped entries never set the flag, the flag is never reset once
\* set, and results holds exactly one entry per fixture processed so far, in
\* discovery order.
C19_FailureFlag == []C19_FlagMatchesResults /\ [][C19_FlagStep]_vars

\* the process exited after a run over two fixtures: one was skipped, the
\* other failed, and the flag is set
C19_Witness ==
    /\ pc = "done" /\ ~uncaught
    /\ Len(results) = 2
    /\ \E i \in 1..2 : results[i].skipped
    /\ \E i \in 1..2 : ~results[i].skipped /\ ~results[i].success
    /\ hasAnyFailure /\ exitCode = 1

====
